---- MODULE Spec2Model ----
(***************************************************************************)
(* Model of src/db/index.js: the data-access layer of fake-store-server.   *)
(*                                                                         *)
(* The database behind the single better-sqlite3 handle is the record db:  *)
(* the set of tables that exist, the rows of users, orders and cart, and   *)
(* the AUTOINCREMENT counters of users and orders.  A statement is run by  *)
(* dbRun, dbAll or dbGet against a database value and either completes or  *)
(* throws; the promise the wrapper returns is then resolved or rejected.   *)
(*                                                                         *)
(* Every statement executes synchronously inside the call that issues it.  *)
(* A repository function that issues one statement is therefore one atomic *)
(* step.  createUser issues two statements separated by an await, and the  *)
(* schema initializer issues three separated by awaits, so these are split *)
(* at their await points and interleave with every other call.             *)
(*                                                                         *)
(* Prices are dyadic rationals n/PriceScale, kept as the integer n, so the *)
(* double arithmetic of the source is exact on every value of the model.   *)
(***************************************************************************)
EXTENDS Integers, Sequences, FiniteSets, TLC

\* ------------------------------------------------------------------ bounds

\* Number of repository calls issued in one run of the process.
MaxOps == 2
\* Number of createUser calls that may be suspended at an await at once.
MaxInFlight == 2

\* ------------------------------------------------------------ input values

\* A price p of the source is represented by the integer p * PriceScale.
PriceScale == 8

Names     == {"", "Ann", "Bob"}
Emails    == {"a@x.io", "b@x.io"}
Passwords == {"", "pw", "pw2"}
\* The user ids callers pass to the order and cart functions.
UserIDs   == 1 .. 2
Flags     == {0, 1, 2}

Item(price, quantity) == [price |-> price, quantity |-> quantity]

\* [{price:1000,quantity:2},{price:250,quantity:1}]
ItemsExample == << Item(1000 * PriceScale, 2), Item(250 * PriceScale, 1) >>
\* [{price:0.125,quantity:1},{price:0.125,quantity:1}]
ItemsHalfCent == << Item(1, 1), Item(1, 1) >>
ItemLists == { << >>, ItemsExample, ItemsHalfCent }

\* ----------------------------------------------------------------- helpers

RECURSIVE SeqById(_)
\* The rows of a table in rowid order, as a scan returns them.
SeqById(S) ==
  IF S = {} THEN << >>
  ELSE LET m == CHOOSE r \in S : \A s \in S : r.id <= s.id
       IN << m >> \o SeqById(S \ {m})

\* What stmt.get returns of a scan: its first row, or nothing.
FirstRow(rows) == IF rows = << >> THEN << >> ELSE << Head(rows) >>

\* Math.round(n / d) for d > 0: the nearest integer, halves rounded up.
MathRound(n, d) == (2 * n + d) \div (2 * d)

\* ---------------------------------------------------------- JSON encoding

\* A JSON text is a sequence of tokens; a number is one token.
Punct(c) == [k |-> c, n |-> 0]
Num(n)   == [k |-> "num", n |-> n]

stringifyItem(itm) ==
  << Punct("{"), Punct("price:"), Num(itm.price), Punct(","),
     Punct("quantity:"), Num(itm.quantity), Punct("}") >>

RECURSIVE stringifyItems(_)
stringifyItems(items) ==
  IF items = << >> THEN << >>
  ELSE IF Len(items) = 1 THEN stringifyItem(Head(items))
  ELSE stringifyItem(Head(items)) \o << Punct(",") >> \o stringifyItems(Tail(items))

JSON_stringify(items) == << Punct("[") >> \o stringifyItems(items) \o << Punct("]") >>

RECURSIVE parseItems(_)
\* The items of a token sequence "item , item , ... ]".
parseItems(toks) ==
  IF Head(toks).k = "]" THEN << >>
  ELSE IF Head(toks).k = "," THEN parseItems(Tail(toks))
  ELSE << Item(toks[3].n, toks[6].n) >> \o parseItems(SubSeq(toks, Len(stringifyItem(Item(0, 0))) + 1, Len(toks)))

JSON_parse(text) == parseItems(Tail(text))

\* ------------------------------------------------------------------- state

VARIABLES
  db,        \* the database file behind the handle of line 14
  initPc,    \* position of the schema initializer (lines 144-152)
  pending,   \* createUser calls suspended at line 169, in the order called,
             \* each with whether its email was in the table when called
  last,      \* the most recently settled repository call: op, args, result
  cartLog,   \* per uid, the updateCart calls executed: how many, whether the
             \* last returned OK, its items, and the items of the one before
  intact,    \* users created and since neither updated nor deleted
  nops       \* number of repository calls issued

vars == << db, initPc, pending, last, cartLog, intact, nops >>

\* ------------------------------------------------------------- statements

createUsersTable_sql        == "CREATE TABLE IF NOT EXISTS users"
createOrdersTable_sql       == "CREATE TABLE IF NOT EXISTS orders"
createShoppingCartTable_sql == "CREATE TABLE IF NOT EXISTS cart"
checkEmailTaken_query == "SELECT * FROM users WHERE email = $email"
createUser_sql        == "INSERT INTO users (name,email,password) VALUES (?,?,?)"
checkUser_query       == "SELECT * FROM users WHERE email=$email AND password=$password"
updateUser_query      == "UPDATE users SET name=$name, password=$password WHERE id=$id"
deleteUser_query      == "DELETE FROM users WHERE email=$email"
getAllUsers_query     == "SELECT * FROM users"
getAllOrders_query    == "SELECT * FROM orders"
getOrdersByUser_query == "SELECT * FROM orders WHERE uid = $uid"
createOrder_sql       == "INSERT INTO orders (uid,item_numbers,total_price,order_items,is_paid,is_delivered) VALUES (?,?,?,?,?,?)"
updateOrder_query     == "UPDATE orders SET is_paid=$isPaid, is_delivered=$isDelivered WHERE id=$orderID"
updateCart_sql        == "INSERT INTO cart (uid, cart_items) VALUES ($uid, $itemstr) ON CONFLICT (uid) DO UPDATE SET cart_items=excluded.cart_items"
getCart_query         == "SELECT * FROM cart WHERE uid=$uid"

\* The outcome of a mutating statement: the database after it, and either
\* the info of a completed run or the message of the error thrown.
Ran(d, lastID, changes) ==
  [db |-> d, ok |-> TRUE, message |-> "", lastID |-> lastID, changes |-> changes]
Threw(d, message) ==
  [db |-> d, ok |-> FALSE, message |-> message, lastID |-> 0, changes |-> 0]

\* The outcome of a read statement: the rows in scan order, or the error.
Rows(rows)     == [ok |-> TRUE, message |-> "", rows |-> rows]
Failed(message) == [ok |-> FALSE, message |-> message, rows |-> << >>]

\* CREATE TABLE IF NOT EXISTS t
sqlCreateTable(d, t) == Ran([d EXCEPT !.tables = @ \cup {t}], 0, 0)

\* Variant: the email column without its UNIQUE constraint.
UsersEmailUnique_off(d, email) == TRUE

\* users.email is declared UNIQUE (line 99).
UsersEmailUnique(d, email) == \A u \in d.users : u.email # email

\* Variant: id declared INTEGER PRIMARY KEY without AUTOINCREMENT, so the
\* new id is one more than the largest id in the table now.
sqlInsertUser_rowid(d, name, email, password) ==
  IF "users" \notin d.tables THEN Threw(d, "no such table: users")
  ELSE IF ~UsersEmailUnique(d, email)
    THEN Threw(d, "UNIQUE constraint failed: users.email")
  ELSE LET ids == {u.id : u \in d.users}
           id  == IF ids = {} THEN 1
                  ELSE 1 + (CHOOSE m \in ids : \A i \in ids : i <= m)
       IN Ran([d EXCEPT !.users = @ \cup {[id |-> id, name |-> name,
                                            email |-> email, password |-> password]},
                        !.users_seq = IF @ > id THEN @ ELSE id], id, 1)

\* INSERT INTO users: id is AUTOINCREMENT (line 97), so the new id is one
\* more than the largest id the table ever held.
sqlInsertUser(d, name, email, password) ==
  IF "users" \notin d.tables THEN Threw(d, "no such table: users")
  ELSE IF ~UsersEmailUnique(d, email)
    THEN Threw(d, "UNIQUE constraint failed: users.email")
  ELSE LET id == d.users_seq + 1
       IN Ran([d EXCEPT !.users = @ \cup {[id |-> id, name |-> name,
                                            email |-> email, password |-> password]},
                        !.users_seq = id], id, 1)

\* Variant: the UPDATE without its WHERE clause, which writes every user.
sqlUpdateUser_allRows(d, name, password, id) ==
  IF "users" \notin d.tables THEN Threw(d, "no such table: users")
  ELSE LET hit == d.users
       IN Ran([d EXCEPT !.users = (@ \ hit) \cup
                 {[u EXCEPT !.name = name, !.password = password] : u \in hit}],
              0, Cardinality(hit))

\* UPDATE users SET name, password WHERE id
sqlUpdateUser(d, name, password, id) ==
  IF "users" \notin d.tables THEN Threw(d, "no such table: users")
  ELSE LET hit == {u \in d.users : u.id = id}
       IN Ran([d EXCEPT !.users = (@ \ hit) \cup
                 {[u EXCEPT !.name = name, !.password = password] : u \in hit}],
              0, Cardinality(hit))

\* Variant: the delete cascades to the orders of the deleted users.
sqlDeleteUser_cascade(d, email) ==
  IF "users" \notin d.tables THEN Threw(d, "no such table: users")
  ELSE LET hit == {u \in d.users : u.email = email}
       IN Ran([d EXCEPT !.users = @ \ hit,
                        !.orders = {o \in @ : \A u \in hit : o.uid # u.id}],
              0, Cardinality(hit))

\* DELETE FROM users WHERE email
sqlDeleteUser(d, email) ==
  IF "users" \notin d.tables THEN Threw(d, "no such table: users")
  ELSE LET hit == {u \in d.users : u.email = email}
       IN Ran([d EXCEPT !.users = @ \ hit], 0, Cardinality(hit))

\* Variant: the orders table declared without its CHECK constraints.
OrdersCheck_off(is_paid, is_delivered) == TRUE

\* orders.is_paid and orders.is_delivered are CHECKed to be 0 or 1
\* (lines 116-117).
OrdersCheck(is_paid, is_delivered) == is_paid \in {0, 1} /\ is_delivered \in {0, 1}

\* INSERT INTO orders
sqlInsertOrder(d, uid, item_numbers, total_price, order_items, is_paid, is_delivered) ==
  IF "orders" \notin d.tables THEN Threw(d, "no such table: orders")
  ELSE IF ~OrdersCheck(is_paid, is_delivered)
    THEN Threw(d, "CHECK constraint failed")
  ELSE LET id == d.orders_seq + 1
       IN Ran([d EXCEPT !.orders = @ \cup
                 {[id |-> id, uid |-> uid, item_numbers |-> item_numbers,
                   is_paid |-> is_paid, is_delivered |-> is_delivered,
                   total_price |-> total_price, order_items |-> order_items]},
                        !.orders_seq = id], id, 1)

\* Variant: an UPDATE that only ever raises a flag, SET is_paid =
\* max(is_paid, $isPaid), is_delivered = max(is_delivered, $isDelivered).
sqlUpdateOrder_raiseOnly(d, orderID, isPaid, isDelivered) ==
  IF "orders" \notin d.tables THEN Threw(d, "no such table: orders")
  ELSE LET hit == {o \in d.orders : o.id = orderID}
       IN IF hit # {} /\ ~OrdersCheck(isPaid, isDelivered)
            THEN Threw(d, "CHECK constraint failed")
          ELSE Ran([d EXCEPT !.orders = (@ \ hit) \cup
                      {[o EXCEPT !.is_paid = IF @ > isPaid THEN @ ELSE isPaid,
                                 !.is_delivered = IF @ > isDelivered THEN @ ELSE isDelivered]
                         : o \in hit}],
                   0, Cardinality(hit))

\* Variant: the UPDATE without its WHERE clause, which writes every row.
sqlUpdateOrder_allRows(d, orderID, isPaid, isDelivered) ==
  IF "orders" \notin d.tables THEN Threw(d, "no such table: orders")
  ELSE LET hit == d.orders
       IN IF hit # {} /\ ~OrdersCheck(isPaid, isDelivered)
            THEN Threw(d, "CHECK constraint failed")
          ELSE Ran([d EXCEPT !.orders = (@ \ hit) \cup
                      {[o EXCEPT !.is_paid = isPaid, !.is_delivered = isDelivered]
                         : o \in hit}],
                   0, Cardinality(hit))

\* UPDATE orders SET is_paid, is_delivered WHERE id: the CHECKs are
\* evaluated on the rows the statement writes.
sqlUpdateOrder(d, orderID, isPaid, isDelivered) ==
  IF "orders" \notin d.tables THEN Threw(d, "no such table: orders")
  ELSE LET hit == {o \in d.orders : o.id = orderID}
       IN IF hit # {} /\ ~OrdersCheck(isPaid, isDelivered)
            THEN Threw(d, "CHECK constraint failed")
          ELSE Ran([d EXCEPT !.orders = (@ \ hit) \cup
                      {[o EXCEPT !.is_paid = isPaid, !.is_delivered = isDelivered]
                         : o \in hit}],
                   0, Cardinality(hit))

\* Variant: ON CONFLICT (uid) DO NOTHING, which keeps the stored items.
sqlUpsertCart_keep(d, uid, itemstr) ==
  IF "cart" \notin d.tables THEN Threw(d, "no such table: cart")
  ELSE IF \E c \in d.cart : c.uid = uid THEN Ran(d, 0, 0)
  ELSE Ran([d EXCEPT !.cart = @ \cup {[uid |-> uid, cart_items |-> itemstr]}], 0, 1)

\* Variant: on conflict the new items are appended to the stored ones.
sqlUpsertCart_merge(d, uid, itemstr) ==
  IF "cart" \notin d.tables THEN Threw(d, "no such table: cart")
  ELSE LET hit == {c \in d.cart : c.uid = uid}
       IN Ran([d EXCEPT !.cart = (@ \ hit) \cup
                 {[uid |-> uid,
                   cart_items |->
                     IF hit = {} THEN itemstr
                     ELSE JSON_stringify(JSON_parse((CHOOSE c \in hit : TRUE).cart_items)
                                           \o JSON_parse(itemstr))]}], 0, 1)

\* INSERT INTO cart ... ON CONFLICT (uid) DO UPDATE SET cart_items =
\* excluded.cart_items; cart.uid is declared UNIQUE (line 132).
sqlUpsertCart(d, uid, itemstr) ==
  IF "cart" \notin d.tables THEN Threw(d, "no such table: cart")
  ELSE LET hit == {c \in d.cart : c.uid = uid}
       IN Ran([d EXCEPT !.cart = (@ \ hit) \cup
                 {[uid |-> uid, cart_items |-> itemstr]}], 0, 1)

\* Run a query (INSERT/UPDATE/DELETE).  lastID is the generated id of an
\* INSERT; what it holds after an UPDATE or DELETE is not modelled, and no
\* result below carries it.
dbRun(d, query, params) ==
  CASE query = createUsersTable_sql        -> sqlCreateTable(d, "users")
    [] query = createOrdersTable_sql       -> sqlCreateTable(d, "orders")
    [] query = createShoppingCartTable_sql -> sqlCreateTable(d, "cart")
    [] query = createUser_sql   -> sqlInsertUser(d, params[1], params[2], params[3])
    [] query = updateUser_query -> sqlUpdateUser(d, params.name, params.password, params.id)
    [] query = deleteUser_query -> sqlDeleteUser(d, params.email)
    [] query = createOrder_sql  ->
         sqlInsertOrder(d, params[1], params[2], params[3], params[4], params[5], params[6])
    [] query = updateOrder_query ->
         sqlUpdateOrder(d, params.orderID, params.isPaid, params.isDelivered)
    [] query = updateCart_sql   -> sqlUpsertCart(d, params.uid, params.itemstr)

\* Fetch all rows.
dbAll(d, query, params) ==
  CASE query = getAllUsers_query ->
         IF "users" \notin d.tables THEN Failed("no such table: users")
         ELSE Rows(SeqById(d.users))
    [] query = getAllOrders_query ->
         IF "orders" \notin d.tables THEN Failed("no such table: orders")
         ELSE Rows(SeqById(d.orders))
    [] query = getOrdersByUser_query ->
         IF "orders" \notin d.tables THEN Failed("no such table: orders")
         ELSE Rows(SeqById({o \in d.orders : o.uid = params.uid}))

\* Fetch a single row: the first match, or no row (undefined).
dbGet(d, query, params) ==
  CASE query = checkEmailTaken_query ->
         IF "users" \notin d.tables THEN Failed("no such table: users")
         ELSE Rows(FirstRow(SeqById({u \in d.users : u.email = params.email})))
    [] query = checkUser_query ->
         IF "users" \notin d.tables THEN Failed("no such table: users")
         ELSE Rows(FirstRow(SeqById({u \in d.users : u.email = params.email
                                                    /\ u.password = params.password})))
    [] query = getCart_query ->
         IF "cart" \notin d.tables THEN Failed("no such table: cart")
         ELSE Rows(IF \E c \in d.cart : c.uid = params.uid
                   THEN << CHOOSE c \in d.cart : c.uid = params.uid >>
                   ELSE << >>)

\* ------------------------------------------------------ result envelopes

\* How the promise of an async function settles.
Resolve(d, value) == [db |-> d, settled |-> "resolved", res |-> value]
Reject(d, message) ==
  [db |-> d, settled |-> "rejected", res |-> [status |-> "thrown", message |-> message]]

Err(message) == [status |-> "error", message |-> message]

\* ------------------------------------------------------------ user domain

checkEmailTaken(d, email) ==
  LET result == dbGet(d, checkEmailTaken_query, [email |-> email])
  IN IF ~result.ok THEN Err(result.message)
     ELSE IF result.rows # << >> THEN Err("The email is already used.")
     ELSE [status |-> "OK"]

\* createUser from its call to the await of line 169: the pre-check has run.
createUser_check(d, name, email, password) ==
  [name |-> name, email |-> email, password |-> password,
   check |-> checkEmailTaken(d, email)]

\* Variant: the id returned is res.changes instead of res.lastID.
createUser_insert_changes(d, call) ==
  IF call.check.status = "error" THEN Resolve(d, call.check)
  ELSE LET res == dbRun(d, createUser_sql, << call.name, call.email, call.password >>)
       IN IF res.ok
            THEN Resolve(res.db, [status |-> "OK", id |-> res.changes,
                                  name |-> call.name, email |-> call.email])
            ELSE Resolve(res.db, Err("Failed to insert user!"))

\* Variant: createUser without the early return of line 170.
createUser_insert_nocheck(d, call) ==
  LET res == dbRun(d, createUser_sql, << call.name, call.email, call.password >>)
  IN IF res.ok
       THEN Resolve(res.db, [status |-> "OK", id |-> res.lastID,
                             name |-> call.name, email |-> call.email])
       ELSE Resolve(res.db, Err("Failed to insert user!"))

\* Variant: createUser without the try/catch around its insert.
createUser_insert_nocatch(d, call) ==
  IF call.check.status = "error" THEN Resolve(d, call.check)
  ELSE LET res == dbRun(d, createUser_sql, << call.name, call.email, call.password >>)
       IN IF res.ok
            THEN Resolve(res.db, [status |-> "OK", id |-> res.lastID,
                                  name |-> call.name, email |-> call.email])
            ELSE Reject(res.db, res.message)

\* createUser from the await of line 169 to its return.
createUser_insert(d, call) ==
  IF call.check.status = "error" THEN Resolve(d, call.check)
  ELSE LET res == dbRun(d, createUser_sql, << call.name, call.email, call.password >>)
       IN IF res.ok
            THEN Resolve(res.db, [status |-> "OK", id |-> res.lastID,
                                  name |-> call.name, email |-> call.email])
            ELSE Resolve(res.db, Err("Failed to insert user!"))

\* Variant: checkUser fetching the row by email and comparing the password
\* afterwards, with a message of its own for a registered email.
checkUser_byEmail(d, email, password) ==
  LET res == dbGet(d, checkEmailTaken_query, [email |-> email])
  IN IF ~res.ok THEN Resolve(d, Err("Failed to login user!"))
     ELSE IF res.rows = << >> THEN Resolve(d, Err("Wrong email or password."))
     ELSE IF res.rows[1].password # password THEN Resolve(d, Err("Wrong password."))
     ELSE Resolve(d, [status |-> "OK", id |-> res.rows[1].id,
                      name |-> res.rows[1].name, email |-> email])

checkUser(d, email, password) ==
  LET res == dbGet(d, checkUser_query, [email |-> email, password |-> password])
  IN IF ~res.ok THEN Resolve(d, Err("Failed to login user!"))
     ELSE IF res.rows # << >>
       THEN Resolve(d, [status |-> "OK", id |-> res.rows[1].id,
                        name |-> res.rows[1].name, email |-> email])
     ELSE Resolve(d, Err("Wrong email or password."))

\* Variant: the guard of line 191 with && for ||.
updateUser_and(d, userID, name, password) ==
  IF name = "" /\ password = ""
    THEN Resolve(d, Err("New Name and Password can't be empty."))
  ELSE LET res == dbRun(d, updateUser_query,
                        [name |-> name, password |-> password, id |-> userID])
       IN IF res.ok
            THEN Resolve(res.db, [status |-> "OK",
                          message |-> "User name and password update successfully.",
                          name |-> name])
            ELSE Resolve(res.db, Err("Failed to update user!"))

updateUser(d, userID, name, password) ==
  IF name = "" \/ password = ""
    THEN Resolve(d, Err("New Name and Password can't be empty."))
  ELSE LET res == dbRun(d, updateUser_query,
                        [name |-> name, password |-> password, id |-> userID])
       IN IF res.ok
            THEN Resolve(res.db, [status |-> "OK",
                          message |-> "User name and password update successfully.",
                          name |-> name])
            ELSE Resolve(res.db, Err("Failed to update user!"))

\* Variant: deleteUser reporting an error when the statement deleted no row.
deleteUser_strict(d, email) ==
  LET res == dbRun(d, deleteUser_query, [email |-> email])
  IN IF res.ok /\ res.changes > 0
       THEN Resolve(res.db, [status |-> "OK", users |-> [changes |-> res.changes]])
       ELSE Resolve(res.db, Err("Failed to delete user!"))

deleteUser(d, email) ==
  LET res == dbRun(d, deleteUser_query, [email |-> email])
  IN IF res.ok
       THEN Resolve(res.db, [status |-> "OK", users |-> [changes |-> res.changes]])
       ELSE Resolve(res.db, Err("Failed to delete user!"))

getAllUsers(d) ==
  LET res == dbAll(d, getAllUsers_query, << >>)
  IN IF res.ok THEN Resolve(d, [status |-> "OK", users |-> res.rows])
     ELSE Resolve(d, Err("Failed to get all users!"))

\* ----------------------------------------------------------- order domain

getAllOrders(d) ==
  LET res == dbAll(d, getAllOrders_query, << >>)
  IN IF res.ok THEN Resolve(d, [status |-> "OK", orders |-> res.rows])
     ELSE Resolve(d, Err("Failed to get all orders!"))

getOrdersByUser(d, userID) ==
  LET res == dbAll(d, getOrdersByUser_query, [uid |-> userID])
  IN IF res.ok THEN Resolve(d, [status |-> "OK", orders |-> res.rows])
     ELSE Resolve(d, Err("Failed to get orders by user!"))

\* Variant: the line total without the factor 100.
reduceStep_noScale(acc, itm) ==
  << acc[1] + itm.quantity,
     acc[2] + MathRound(itm.quantity * itm.price, PriceScale) >>

\* One step of the reduce of lines 244-247: the line is rounded, then added.
\* itm.quantity * itm.price * 100 is (quantity * price * 100) / PriceScale.
reduceStep(acc, itm) ==
  << acc[1] + itm.quantity,
     acc[2] + MathRound(itm.quantity * itm.price * 100, PriceScale) >>

RECURSIVE sumLines(_)
sumLines(items) ==
  IF items = << >> THEN << 0, 0 >>
  ELSE LET rest == sumLines(Tail(items))
       IN << rest[1] + Head(items).quantity,
             rest[2] + Head(items).quantity * Head(items).price * 100 >>

\* Variant: the lines are summed first and the sum is rounded once.
reduce_sumFirst(items, acc) ==
  << acc[1] + sumLines(items)[1],
     acc[2] + MathRound(sumLines(items)[2], PriceScale) >>

RECURSIVE reduce(_, _)
reduce(items, acc) ==
  IF items = << >> THEN acc ELSE reduce(Tail(items), reduceStep(acc, Head(items)))

\* Variant: createOrder without the catch of lines 254-257.
createOrder_nocatch(d, userID, items) ==
  LET acc == reduce(items, << 0, 0 >>)
      res == dbRun(d, createOrder_sql,
                   << userID, acc[1], acc[2], JSON_stringify(items), 0, 0 >>)
  IN IF res.ok THEN Resolve(res.db, [status |-> "OK", id |-> res.lastID])
     ELSE Reject(res.db, res.message)

createOrder(d, userID, items) ==
  LET acc        == reduce(items, << 0, 0 >>)
      itemNumber == acc[1]
      totalPrice == acc[2]
      orderItems == JSON_stringify(items)
      res == dbRun(d, createOrder_sql,
                   << userID, itemNumber, totalPrice, orderItems, 0, 0 >>)
  IN IF res.ok THEN Resolve(res.db, [status |-> "OK", id |-> res.lastID])
     ELSE Resolve(res.db, Err("Failed to insert orders!"))

\* Variant: updateOrder reporting an error when the statement wrote no row.
updateOrder_strict(d, orderID, isPaid, isDelivered) ==
  LET res == dbRun(d, updateOrder_query,
                   [orderID |-> orderID, isPaid |-> isPaid, isDelivered |-> isDelivered])
  IN IF res.ok /\ res.changes > 0
       THEN Resolve(res.db, [status |-> "OK", result |-> [changes |-> res.changes]])
       ELSE Resolve(res.db, Err("update order error"))

updateOrder(d, orderID, isPaid, isDelivered) ==
  LET res == dbRun(d, updateOrder_query,
                   [orderID |-> orderID, isPaid |-> isPaid, isDelivered |-> isDelivered])
  IN IF res.ok
       THEN Resolve(res.db, [status |-> "OK", result |-> [changes |-> res.changes]])
       ELSE Resolve(res.db, Err("update order error"))

\* ------------------------------------------------------------ cart domain

updateCart(d, uid, items) ==
  LET res == dbRun(d, updateCart_sql, [uid |-> uid, itemstr |-> JSON_stringify(items)])
  IN IF res.ok
       THEN Resolve(res.db, [status |-> "OK", result |-> [changes |-> res.changes]])
       ELSE Resolve(res.db, Err("update cart error"))

\* Variant: getCart without the guard of line 287; reading cart_items of no
\* row throws inside the try.
getCart_noguard(d, uid) ==
  LET res == dbGet(d, getCart_query, [uid |-> uid])
  IN IF ~res.ok \/ res.rows = << >> THEN Resolve(d, Err("Failed to get cart items!"))
     ELSE Resolve(d, [status |-> "OK", items |-> JSON_parse(res.rows[1].cart_items)])

getCart(d, uid) ==
  LET res == dbGet(d, getCart_query, [uid |-> uid])
  IN IF ~res.ok THEN Resolve(d, Err("Failed to get cart items!"))
     ELSE IF res.rows = << >> THEN Resolve(d, [status |-> "OK", items |-> << >>])
     ELSE Resolve(d, [status |-> "OK", items |-> JSON_parse(res.rows[1].cart_items)])

\* ----------------------------------------------------------------- actions

\* The database of a file that does not exist yet (line 9 creates it).
FreshDb ==
  [tables |-> {}, users |-> {}, users_seq |-> 0,
   orders |-> {}, orders_seq |-> 0, cart |-> {}]

\* The database file an earlier run of the process left behind: the three
\* tables, and what createUser, createOrder and updateCart stored in them.
UsedDb ==
  LET d0 == [FreshDb EXCEPT !.tables = {"users", "orders", "cart"}]
      d1 == createUser_insert(d0, createUser_check(d0, "Ann", "a@x.io", "pw")).db
      d2 == createOrder(d1, 1, ItemsHalfCent).db
  IN updateCart(d2, 1, ItemsExample).db

\* The process starts on a new file or on the file of an earlier run.
Init ==
  /\ db \in {FreshDb, UsedDb}
  /\ initPc = "users"
  /\ pending = << >>
  /\ last = [op |-> "none"]
  /\ cartLog = [uid \in UserIDs |->
                 IF \E c \in db.cart : c.uid = uid
                   THEN [calls |-> 1, ok |-> TRUE, items |-> ItemsExample, prev |-> << >>]
                   ELSE [calls |-> 0, ok |-> FALSE, items |-> << >>, prev |-> << >>]]
  /\ intact = {}
  /\ nops = 0

\* The schema initializer (lines 144-152).  Its first statement runs while
\* the module loads; the other two run after awaits, when callers may
\* already have used the exported functions.
createUsersTable ==
  /\ initPc = "users"
  /\ db' = dbRun(db, createUsersTable_sql, << >>).db
  /\ initPc' = "orders"
  /\ UNCHANGED << pending, last, cartLog, intact, nops >>

createOrdersTable ==
  /\ initPc = "orders"
  /\ db' = dbRun(db, createOrdersTable_sql, << >>).db
  /\ initPc' = "cart"
  /\ UNCHANGED << pending, last, cartLog, intact, nops >>

createShoppingCartTable ==
  /\ initPc = "cart"
  /\ db' = dbRun(db, createShoppingCartTable_sql, << >>).db
  /\ initPc' = "done"
  /\ UNCHANGED << pending, last, cartLog, intact, nops >>

\* The exports exist once the module body has run (line 295).
CanCall == initPc # "users" /\ nops < MaxOps

\* A call settles: its statement has run and its result is fixed.
Settle(op, args, out) ==
  /\ db' = out.db
  /\ last' = [op |-> op, args |-> args, settled |-> out.settled, res |-> out.res]

CreateUserCall(name, email, password) ==
  /\ CanCall
  /\ Len(pending) < MaxInFlight
  /\ pending' = Append(pending,
                        [call  |-> createUser_check(db, name, email, password),
                         taken |-> \E u \in db.users : u.email = email])
  /\ nops' = nops + 1
  /\ UNCHANGED << db, initPc, last, cartLog, intact >>

\* Continuations run in the order their calls were made.
CreateUserResume ==
  /\ pending # << >>
  /\ LET call == Head(pending).call
         out  == createUser_insert(db, call)
     IN /\ Settle("createUser",
                  [name |-> call.name, email |-> call.email, password |-> call.password],
                  out)
        /\ intact' = IF out.res.status = "OK"
                       THEN intact \cup {[id |-> out.res.id, email |-> call.email,
                                          password |-> call.password]}
                       ELSE intact
  /\ pending' = Tail(pending)
  /\ UNCHANGED << initPc, cartLog, nops >>

CheckUser(email, password) ==
  /\ CanCall
  /\ Settle("checkUser", [email |-> email, password |-> password],
            checkUser(db, email, password))
  /\ nops' = nops + 1
  /\ UNCHANGED << initPc, pending, cartLog, intact >>

UpdateUser(userID, name, password) ==
  /\ CanCall
  /\ Settle("updateUser", [userID |-> userID, name |-> name, password |-> password],
            updateUser(db, userID, name, password))
  /\ intact' = IF name # "" /\ password # ""
                 THEN {c \in intact : c.id # userID} ELSE intact
  /\ nops' = nops + 1
  /\ UNCHANGED << initPc, pending, cartLog >>

DeleteUser(email) ==
  /\ CanCall
  /\ Settle("deleteUser", [email |-> email], deleteUser(db, email))
  /\ intact' = {c \in intact : c.email # email}
  /\ nops' = nops + 1
  /\ UNCHANGED << initPc, pending, cartLog >>

GetAllUsers ==
  /\ CanCall
  /\ Settle("getAllUsers", [none |-> 0], getAllUsers(db))
  /\ nops' = nops + 1
  /\ UNCHANGED << initPc, pending, cartLog, intact >>

GetAllOrders ==
  /\ CanCall
  /\ Settle("getAllOrders", [none |-> 0], getAllOrders(db))
  /\ nops' = nops + 1
  /\ UNCHANGED << initPc, pending, cartLog, intact >>

GetOrdersByUser(userID) ==
  /\ CanCall
  /\ Settle("getOrdersByUser", [userID |-> userID], getOrdersByUser(db, userID))
  /\ nops' = nops + 1
  /\ UNCHANGED << initPc, pending, cartLog, intact >>

CreateOrder(userID, items) ==
  /\ CanCall
  /\ Settle("createOrder", [userID |-> userID, items |-> items],
            createOrder(db, userID, items))
  /\ nops' = nops + 1
  /\ UNCHANGED << initPc, pending, cartLog, intact >>

\* The record of the call also keeps the flags the targeted row had when the
\* statement ran (before), so that a transition between flag states can be
\* read from one state.
UpdateOrder(orderID, isPaid, isDelivered) ==
  /\ CanCall
  /\ LET out == updateOrder(db, orderID, isPaid, isDelivered)
     IN /\ db' = out.db
        /\ last' = [op |-> "updateOrder",
                    args |-> [orderID |-> orderID, isPaid |-> isPaid,
                              isDelivered |-> isDelivered],
                    settled |-> out.settled, res |-> out.res,
                    before |-> {<< o.is_paid, o.is_delivered >> :
                                  o \in {r \in db.orders : r.id = orderID}}]
  /\ nops' = nops + 1
  /\ UNCHANGED << initPc, pending, cartLog, intact >>

UpdateCart(uid, items) ==
  /\ CanCall
  /\ Settle("updateCart", [uid |-> uid, items |-> items], updateCart(db, uid, items))
  /\ cartLog' = [cartLog EXCEPT ![uid] =
                   [calls |-> @.calls + 1,
                    ok    |-> updateCart(db, uid, items).res.status = "OK",
                    items |-> items,
                    prev  |-> @.items]]
  /\ nops' = nops + 1
  /\ UNCHANGED << initPc, pending, intact >>

GetCart(uid) ==
  /\ CanCall
  /\ Settle("getCart", [uid |-> uid], getCart(db, uid))
  /\ nops' = nops + 1
  /\ UNCHANGED << initPc, pending, cartLog, intact >>

Next ==
  \/ createUsersTable
  \/ createOrdersTable
  \/ createShoppingCartTable
  \/ \E name \in Names, email \in Emails, password \in Passwords :
       CreateUserCall(name, email, password)
  \/ CreateUserResume
  \/ \E email \in Emails, password \in Passwords : CheckUser(email, password)
  \/ \E userID \in 1 .. db.users_seq + 1, name \in Names, password \in Passwords :
       UpdateUser(userID, name, password)
  \/ \E email \in Emails : DeleteUser(email)
  \/ GetAllUsers
  \/ GetAllOrders
  \/ \E userID \in UserIDs : GetOrdersByUser(userID)
  \/ \E userID \in UserIDs, items \in ItemLists : CreateOrder(userID, items)
  \/ \E orderID \in 1 .. db.orders_seq + 1, isPaid \in Flags, isDelivered \in Flags :
       UpdateOrder(orderID, isPaid, isDelivered)
  \/ \E uid \in UserIDs, items \in ItemLists : UpdateCart(uid, items)
  \/ \E uid \in UserIDs : GetCart(uid)

Spec == Init /\ [][Next]_vars

\* Number of repository calls that have settled.
SettledCalls == nops - Len(pending)

\* This step settles a call of op.
Settles(op) == SettledCalls' = SettledCalls + 1 /\ last'.op = op

\* ------------------------------------------------------------------ claims

\* C1: in every reachable state, whatever the interleaving of createUser,
\* updateUser and deleteUser calls, no two user rows share an email.
C1_EmailUnique ==
  \A u \in db.users, v \in db.users : u.email = v.email => u = v

\* C1 witness: two createUser calls of one fresh email raced, and the insert
\* of the second was refused while the row of the first is in the table.
C1_Witness ==
  /\ last.op = "createUser"
  /\ last.res.status = "error"
  /\ last.res.message = "Failed to insert user!"
  /\ \E u \in db.users : u.email = last.args.email

\* C2 as stated: a createUser whose email was not in the users table when it
\* was called returns OK with a positive id.
C2_Original ==
  [][ Settles("createUser") /\ ~Head(pending).taken
        => last'.res.status = "OK" /\ last'.res.id > 0 ]_vars

\* C2 amended: a createUser whose email is in the users table neither when it
\* is called nor when its insert executes returns OK with a positive id; and
\* a checkUser with the email and password of a user that createUser
\* returned, not updated or deleted since, returns OK with that user's id.
C2_CreateThenCheck ==
  [][ /\ Settles("createUser") /\ ~Head(pending).taken
           /\ (\A u \in db.users : u.email # last'.args.email)
        => last'.res.status = "OK" /\ last'.res.id > 0
      /\ Settles("checkUser")
        => \A c \in intact :
             c.email = last'.args.email /\ c.password = last'.args.password
               => last'.res.status = "OK" /\ last'.res.id = c.id ]_vars

\* C2 witness: checkUser has returned OK with the id createUser returned.
C2_Witness ==
  /\ last.op = "checkUser"
  /\ last.res.status = "OK"
  /\ \E c \in intact : /\ c.email = last.args.email
                       /\ c.password = last.args.password
                       /\ c.id = last.res.id
                       /\ c.id > 0

\* C3: a createUser whose email was in the users table when it was called
\* returns the Conflict envelope and leaves the database as it was.
C3_ConflictNoChange ==
  [][ Settles("createUser") /\ Head(pending).taken
        => /\ last'.settled = "resolved"
           /\ last'.res = Err("The email is already used.")
           /\ db' = db ]_vars

\* C3 witness: createUser was refused for an email whose row is in the table.
C3_Witness ==
  /\ last.op = "createUser"
  /\ last.res = Err("The email is already used.")
  /\ \E u \in db.users : u.email = last.args.email

\* C4: every repository call resolves, to an envelope whose status is OK or
\* error, the latter with a message; none rejects.
C4_NoEscape ==
  last.op # "none" =>
    /\ last.settled = "resolved"
    /\ last.res.status \in {"OK", "error"}
    /\ last.res.status = "error" => last.res.message # ""

\* C4 witness: a statement threw on a missing table, and the call resolved to
\* an error envelope.
C4_Witness ==
  /\ last.op = "createOrder"
  /\ "orders" \notin db.tables
  /\ last.settled = "resolved"
  /\ last.res = Err("Failed to insert orders!")

\* C5: getCart(uid) returns OK with exactly the items of the last updateCart
\* call for uid, when that call returned OK: the items of one call, or the
\* second of two, with nothing of the first.
C5_RoundTrip ==
  [][ Settles("getCart") /\ cartLog[last'.args.uid].calls > 0
                         /\ cartLog[last'.args.uid].ok
        => last'.res = [status |-> "OK", items |-> cartLog[last'.args.uid].items] ]_vars

\* C5 witness: after updateCart(uid, X) and updateCart(uid, Y) with X and Y
\* sharing no item, getCart(uid) has returned Y.
C5_Witness ==
  /\ last.op = "getCart"
  /\ cartLog[last.args.uid].calls >= 2
  /\ cartLog[last.args.uid].ok
  /\ cartLog[last.args.uid].prev = ItemsExample
  /\ cartLog[last.args.uid].items = ItemsHalfCent
  /\ last.res = [status |-> "OK", items |-> ItemsHalfCent]

\* C6: the cart table holds at most one row per uid, and the row's cart_items
\* is the encoding of the items of the last updateCart call for that uid.
C6_OneCartRow ==
  /\ \A c1 \in db.cart, c2 \in db.cart : c1.uid = c2.uid => c1 = c2
  /\ \A c \in db.cart : /\ cartLog[c.uid].calls > 0
                        /\ c.cart_items = JSON_stringify(cartLog[c.uid].items)

\* C6 witness: a second updateCart for a uid has replaced different items.
C6_Witness ==
  \E c \in db.cart : /\ cartLog[c.uid].calls >= 2
                     /\ cartLog[c.uid].prev # cartLog[c.uid].items
                     /\ cartLog[c.uid].prev # << >>

\* C7 as stated: getCart(uid), when no updateCart call for uid has executed,
\* returns OK with no items.
C7_Original ==
  [][ Settles("getCart") /\ cartLog[last'.args.uid].calls = 0
        => last'.res = [status |-> "OK", items |-> << >>] ]_vars

\* C7 amended: getCart(uid), when the cart table exists and no updateCart
\* call for uid has executed, returns OK with no items.
C7_EmptyCart ==
  [][ Settles("getCart") /\ cartLog[last'.args.uid].calls = 0 /\ "cart" \in db.tables
        => /\ last'.settled = "resolved"
           /\ last'.res = [status |-> "OK", items |-> << >>] ]_vars

\* C7 witness: getCart has returned OK with no items for a uid without
\* updateCart calls, while another uid has a cart row.
C7_Witness ==
  /\ last.op = "getCart"
  /\ cartLog[last.args.uid].calls = 0
  /\ "cart" \in db.tables
  /\ db.cart # {}
  /\ last.res = [status |-> "OK", items |-> << >>]

\* C8: updateUser with an empty name or an empty password returns the
\* validation error and leaves the database as it was.
C8_ValidationNoChange ==
  [][ Settles("updateUser") /\ (last'.args.name = "" \/ last'.args.password = "")
        => /\ last'.res = Err("New Name and Password can't be empty.")
           /\ db' = db ]_vars

\* C8 witness: updateUser was refused for the id of a row of the table, with
\* one of the two fields empty and the other not.
C8_Witness ==
  /\ last.op = "updateUser"
  /\ last.res = Err("New Name and Password can't be empty.")
  /\ last.args.name # last.args.password
  /\ \E u \in db.users : u.id = last.args.userID /\ u.name # last.args.name

\* The order rows a step adds.
NewOrders == db'.orders \ db.orders

\* C9 as stated, of a call made when the orders table exists: createOrder of
\* [{price:1000,quantity:2},{price:250,quantity:1}] stores an order with
\* item count 3, total_price 2250 and both flags 0.
C9_Original ==
  [][ Settles("createOrder") /\ last'.args.items = ItemsExample /\ "orders" \in db.tables
        => \E o \in NewOrders : /\ o.item_numbers = 3
                                /\ o.total_price = 2250
                                /\ o.is_paid = 0 /\ o.is_delivered = 0 ]_vars

\* C9 amended: createOrder of those items, called when the orders table
\* exists, stores an order with item count 3, total_price 225000 and both
\* flags 0.
C9_Example ==
  [][ Settles("createOrder") /\ last'.args.items = ItemsExample /\ "orders" \in db.tables
        => \E o \in NewOrders : /\ o.id = last'.res.id
                                /\ o.item_numbers = 3
                                /\ o.total_price = 225000
                                /\ o.is_paid = 0 /\ o.is_delivered = 0 ]_vars

\* C9 witness: the order of the example is stored with total_price 225000.
C9_Witness ==
  /\ last.op = "createOrder"
  /\ last.args.items = ItemsExample
  /\ last.res.status = "OK"
  /\ \E o \in db.orders : /\ o.id = last.res.id
                          /\ o.item_numbers = 3
                          /\ o.total_price = 225000

RECURSIVE SumQuantity(_)
\* The sum of the quantities of the items.
SumQuantity(items) ==
  IF items = << >> THEN 0 ELSE Head(items).quantity + SumQuantity(Tail(items))

RECURSIVE SumRoundedLines(_)
\* The sum over the items of round(quantity * price * 100).
SumRoundedLines(items) ==
  IF items = << >> THEN 0
  ELSE MathRound(Head(items).quantity * Head(items).price * 100, PriceScale)
         + SumRoundedLines(Tail(items))

\* The one order row createOrder(userID, items) is to add, under id.
OrderRow(id, userID, items) ==
  [id |-> id, uid |-> userID, item_numbers |-> SumQuantity(items),
   is_paid |-> 0, is_delivered |-> 0, total_price |-> SumRoundedLines(items),
   order_items |-> JSON_stringify(items)]

\* C10 as stated: every createOrder returns OK with the id of the one row it
\* adds, which holds uid, the summed quantities, the sum of the rounded
\* lines, the encoded items and both flags 0.
C10_Original ==
  [][ Settles("createOrder")
        => /\ last'.res.status = "OK"
           /\ NewOrders = {OrderRow(last'.res.id, last'.args.userID, last'.args.items)}
           /\ db.orders \subseteq db'.orders ]_vars

\* C10 amended: the same, of every createOrder called when the orders table
\* exists.
C10_OrderRow ==
  [][ Settles("createOrder") /\ "orders" \in db.tables
        => /\ last'.res.status = "OK"
           /\ last'.res.id \notin {o.id : o \in db.orders}
           /\ NewOrders = {OrderRow(last'.res.id, last'.args.userID, last'.args.items)}
           /\ db.orders \subseteq db'.orders ]_vars

\* C10 witness: an order of two lines that each round up is stored with the
\* sum of the rounded lines, which is not the rounded sum.
C10_Witness ==
  /\ last.op = "createOrder"
  /\ last.args.items = ItemsHalfCent
  /\ last.res.status = "OK"
  /\ \E o \in db.orders : /\ o.id = last.res.id
                          /\ o.total_price = 26
                          /\ o.total_price # MathRound(2 * 100, PriceScale)


\* ------------------------------------------------------------ C11

\* The order rows with the given id.
OrderById(d, id) == {o \in d.orders : o.id = id}

\* A settling updateOrder(id, 1, 0) whose id matches an order row.
C11_Case ==
  /\ Settles("updateOrder")
  /\ last'.args.isPaid = 1 /\ last'.args.isDelivered = 0
  /\ OrderById(db, last'.args.orderID) # {}

\* C11 as stated: updateOrder(id, 1, 0) on an existing order changes only
\* is_paid of that order, whatever its flags were.
C11_Original ==
  [][ C11_Case =>
        db' = [db EXCEPT !.orders =
                 {IF o.id = last'.args.orderID THEN [o EXCEPT !.is_paid = 1] ELSE o
                    : o \in db.orders}] ]_vars

\* C11: updateOrder(id, 1, 0) on an existing order sets is_paid to 1 and
\* is_delivered to 0 on that row (so is_delivered changes when it was 1);
\* the row's uid, item_numbers, total_price and order_items, every other
\* order row and every other table are the same after the call as before.
C11_PaidAndUndelivered ==
  [][ C11_Case =>
        db' = [db EXCEPT !.orders =
                 {IF o.id = last'.args.orderID
                    THEN [o EXCEPT !.is_paid = 1, !.is_delivered = 0] ELSE o
                    : o \in db.orders}] ]_vars

\* updateOrder(id, 1, 0) has run on a delivered order while another order
\* row is stored.
C11_Witness ==
  /\ last.op = "updateOrder"
  /\ last.args.isPaid = 1 /\ last.args.isDelivered = 0
  /\ last.res = [status |-> "OK", result |-> [changes |-> 1]]
  /\ \E f \in last.before : f[2] = 1
  /\ \E o \in db.orders : o.id = last.args.orderID /\ o.is_paid = 1 /\ o.is_delivered = 0

\* ------------------------------------------------------------ C12

\* The columns of an order row that createOrder fixes.
OrderContent(o) ==
  [id |-> o.id, uid |-> o.uid, item_numbers |-> o.item_numbers,
   total_price |-> o.total_price, order_items |-> o.order_items]

\* C12: no step deletes an order row or changes its uid, item_numbers,
\* total_price or order_items, whatever operation it is (deleteUser of the
\* owning user and updateOrder included); the flags of a row differ after a
\* step only when the step is an updateOrder call on the id of that row; and
\* the row a createOrder returning OK with id i has stored carries that id.
C12_OrdersKept ==
  [][ /\ \A o \in db.orders :
           \E n \in db'.orders :
              /\ OrderContent(n) = OrderContent(o)
              /\ n # o => Settles("updateOrder") /\ last'.args.orderID = o.id
      /\ Settles("createOrder") /\ last'.res.status = "OK"
           => \E n \in NewOrders : n.id = last'.res.id ]_vars

\* deleteUser has removed a user whose order is still stored.
C12_Witness ==
  /\ last.op = "deleteUser"
  /\ last.res = [status |-> "OK", users |-> [changes |-> 1]]
  /\ \E o \in db.orders : \A u \in db.users : u.id # o.uid
  /\ \E o \in db.orders : o.is_paid = 1

\* ------------------------------------------------------------ C13

\* The rows of orders all carry flags that are 0 or 1.
FlagsInRange(d) ==
  \A o \in d.orders : o.is_paid \in {0, 1} /\ o.is_delivered \in {0, 1}

\* A settling updateOrder one of whose flags is neither 0 nor 1.
C13_Case ==
  /\ Settles("updateOrder")
  /\ (last'.args.isPaid \notin {0, 1} \/ last'.args.isDelivered \notin {0, 1})

\* C13 as stated: every order row has flags in {0,1}, and every updateOrder
\* call with a flag outside {0,1} returns an error envelope and changes no
\* row.
C13_Original ==
  [][ /\ FlagsInRange(db) /\ FlagsInRange(db')
      /\ C13_Case => last'.res.status = "error" /\ db' = db ]_vars

\* C13: every order row has is_paid and is_delivered in {0,1} before and
\* after every step; an updateOrder call with a flag outside {0,1} whose id
\* matches an order row returns the error envelope and changes nothing; in
\* every case such a call leaves all rows unchanged.
C13_FlagsChecked ==
  [][ /\ FlagsInRange(db) /\ FlagsInRange(db')
      /\ C13_Case
           => /\ db' = db
              /\ OrderById(db, last'.args.orderID) # {}
                   => last'.res = Err("update order error") ]_vars

\* updateOrder with a flag outside {0,1} has been refused on a stored order.
C13_Witness ==
  /\ last.op = "updateOrder"
  /\ (last.args.isPaid \notin {0, 1} \/ last.args.isDelivered \notin {0, 1})
  /\ last.before # {}
  /\ last.res = Err("update order error")
  /\ OrderById(db, last.args.orderID) # {}

\* ------------------------------------------------------------ C14

\* The user rows with the given email.
UserByEmail(d, email) == {u \in d.users : u.email = email}

\* C14: a deleteUser on an email that matches no user row returns status OK
\* reporting zero affected rows and changes nothing; after any deleteUser no
\* row carries the email, so a deleteUser that directly follows a deleteUser
\* of the same email returns OK with zero affected rows and leaves the state
\* the first call left.
C14_DeleteIdempotent ==
  [][ Settles("deleteUser") =>
        /\ UserByEmail(db', last'.args.email) = {}
        /\ (UserByEmail(db, last'.args.email) = {}
              \/ (last.op = "deleteUser" /\ last.args.email = last'.args.email))
             => /\ last'.res = [status |-> "OK", users |-> [changes |-> 0]]
                /\ db' = db ]_vars

\* deleteUser has returned OK with zero affected rows for the email of a user
\* that an earlier deleteUser removed: the only user ever stored is gone and
\* the orders it left behind are still there.
C14_Witness ==
  /\ last.op = "deleteUser"
  /\ last.res = [status |-> "OK", users |-> [changes |-> 0]]
  /\ db.users = {}
  /\ \E o \in db.orders : o.uid = db.users_seq

\* ------------------------------------------------------------ C15

\* C15: checkUser changes no table, and whenever no user row matches the
\* input on both email and password it returns the one envelope (status
\* 'error', message 'Wrong email or password.'), which depends neither on
\* the store state nor on whether the email is registered; so two calls with
\* the same failing input, in any two store states, return the identical
\* envelope.
C15_NoEnumeration ==
  [][ Settles("checkUser") =>
        /\ db' = db
        /\ last'.settled = "resolved"
        /\ (\A u \in db.users : u.email # last'.args.email
                                   \/ u.password # last'.args.password)
             => last'.res = Err("Wrong email or password.") ]_vars

\* checkUser has answered for a registered email with another password.
C15_Witness ==
  /\ last.op = "checkUser"
  /\ last.res = Err("Wrong email or password.")
  /\ \E u \in db.users : u.email = last.args.email /\ u.password # last.args.password
  /\ \E e \in Emails : UserByEmail(db, e) = {}

\* ------------------------------------------------------------ C16

\* The first of two raced createUser calls resumes: the two oldest pending
\* calls carry one email, both pre-checks found it fresh, and no row carries
\* it yet.
C16_FirstInsert ==
  /\ Settles("createUser")
  /\ Len(pending) > 1
  /\ pending[1].call.email = pending[2].call.email
  /\ ~pending[1].taken /\ ~pending[2].taken
  /\ UserByEmail(db, pending[1].call.email) = {}

\* The second of the two resumes: the call settled last is a createUser of
\* the same email that returned OK, and the pre-check of the resuming call
\* ran before that insert.
C16_SecondInsert ==
  /\ Settles("createUser")
  /\ last.op = "createUser" /\ last.res.status = "OK"
  /\ last.args.email = Head(pending).call.email
  /\ ~Head(pending).taken

\* C16: when two createUser calls of one fresh email both pass the pre-check
\* before either inserts, the call that inserts first returns OK and stores
\* its row, and the other resolves (does not reject) to the error envelope
\* 'Failed to insert user!' and changes nothing, so that the users table
\* holds exactly one row of that email, with the id, name and password of
\* the call that returned OK.
C16_OneWinner ==
  [][ /\ C16_FirstInsert
        => /\ last'.settled = "resolved" /\ last'.res.status = "OK"
           /\ UserByEmail(db', last'.args.email) =
                {[id |-> last'.res.id, name |-> last'.args.name,
                  email |-> last'.args.email, password |-> last'.args.password]}
      /\ C16_SecondInsert
        => /\ last'.settled = "resolved"
           /\ last'.res = Err("Failed to insert user!")
           /\ db' = db
           /\ UserByEmail(db', last'.args.email) =
                {[id |-> last.res.id, name |-> last.args.name,
                  email |-> last.args.email, password |-> last.args.password]} ]_vars

\* Two createUser calls of one email with different names and passwords have
\* raced: the second was refused and the row is that of the first.
C16_Witness ==
  /\ last.op = "createUser"
  /\ last.res = Err("Failed to insert user!")
  /\ pending = << >>
  /\ \E u \in UserByEmail(db, last.args.email) :
        u.name # last.args.name /\ u.password # last.args.password
  /\ Cardinality(UserByEmail(db, last.args.email)) = 1

\* ------------------------------------------------------------ C17

\* C17: an updateUser with non-empty name and password writes the name and
\* password of the row whose id is userID and nothing else: ids, emails,
\* every other user row, the orders and the cart are as before; and no step
\* of any operation changes the email of a stored user id.
C17_NameAndPasswordOnly ==
  [][ /\ Settles("updateUser") /\ last'.args.name # "" /\ last'.args.password # ""
        => db' = [db EXCEPT !.users =
                    {IF u.id = last'.args.userID
                       THEN [u EXCEPT !.name = last'.args.name,
                                      !.password = last'.args.password]
                       ELSE u : u \in db.users}]
      /\ \A u \in db.users, v \in db'.users : u.id = v.id => u.email = v.email ]_vars

\* updateUser has renamed one of two users while orders and a cart are stored.
C17_Witness ==
  /\ last.op = "updateUser"
  /\ last.res.status = "OK"
  /\ \E u \in db.users, v \in db.users :
        /\ u.id = last.args.userID
        /\ u.name = last.args.name /\ u.password = last.args.password
        /\ v.id # u.id
        /\ v.name # u.name /\ v.password # u.password
  /\ db.orders # {} /\ db.cart # {}

\* ------------------------------------------------------------ C18

\* A settling updateUser with non-empty name and password whose id matches
\* no user row.
C18_UserCase ==
  /\ Settles("updateUser")
  /\ last'.args.name # "" /\ last'.args.password # ""
  /\ \A u \in db.users : u.id # last'.args.userID

\* A settling updateOrder with flags in {0,1} whose id matches no order row.
C18_OrderCase ==
  /\ Settles("updateOrder")
  /\ last'.args.isPaid \in {0, 1} /\ last'.args.isDelivered \in {0, 1}
  /\ OrderById(db, last'.args.orderID) = {}

\* C18 as stated: both updates return status OK and change nothing whenever
\* no row has the id.
C18_Original ==
  [][ C18_UserCase \/ C18_OrderCase
        => last'.res.status = "OK" /\ db' = db ]_vars

\* C18: an update on an id that matches no row changes no table and creates
\* no row; updateUser with non-empty name and password returns status OK,
\* and updateOrder with flags in {0,1} returns status OK with zero affected
\* rows when the orders table exists (and the error envelope when it does
\* not exist yet).
C18_SilentNoOp ==
  [][ /\ C18_UserCase
        => /\ db' = db
           /\ last'.res = [status |-> "OK",
                           message |-> "User name and password update successfully.",
                           name |-> last'.args.name]
      /\ C18_OrderCase
        => /\ db' = db
           /\ last'.res = IF "orders" \in db.tables
                            THEN [status |-> "OK", result |-> [changes |-> 0]]
                            ELSE Err("update order error") ]_vars

\* updateOrder has returned OK for an id that no order row of the existing
\* table carries.
C18_Witness ==
  /\ last.op = "updateOrder"
  /\ last.before = {}
  /\ last.res = [status |-> "OK", result |-> [changes |-> 0]]
  /\ last.args.isPaid \in {0, 1} /\ last.args.isDelivered \in {0, 1}
  /\ OrderById(db, last.args.orderID) = {}
  /\ db.orders # {}

\* ------------------------------------------------------------ C19

\* C19: for every stored order, whatever its flags, and every p, d in {0,1},
\* updateOrder(id, p, d) returns status OK with one affected row and leaves
\* the row with is_paid = p and is_delivered = d, every other column and row
\* as before; so each of the four flag combinations is one call away from
\* each other.
C19_Overwrite ==
  [][ ( /\ Settles("updateOrder")
        /\ last'.args.isPaid \in {0, 1} /\ last'.args.isDelivered \in {0, 1}
        /\ OrderById(db, last'.args.orderID) # {} )
        => /\ last'.res = [status |-> "OK", result |-> [changes |-> 1]]
           /\ OrderById(db', last'.args.orderID) =
                {[o EXCEPT !.is_paid = last'.args.isPaid,
                           !.is_delivered = last'.args.isDelivered]
                   : o \in OrderById(db, last'.args.orderID)}
           /\ db'.orders \ OrderById(db', last'.args.orderID) =
                db.orders \ OrderById(db, last'.args.orderID) ]_vars

\* A paid and delivered order has been set back to unpaid and kept delivered.
C19_Witness ==
  /\ last.op = "updateOrder"
  /\ last.res.status = "OK"
  /\ last.before = {<< 1, 1 >>}
  /\ last.args.isPaid = 0 /\ last.args.isDelivered = 1
  /\ \E o \in OrderById(db, last.args.orderID) : o.is_paid = 0 /\ o.is_delivered = 1

\* ------------------------------------------------------------ C20

\* C20: users_seq, the AUTOINCREMENT counter of the users table, never
\* decreases and bounds the id of every stored user; a createUser that
\* returns OK returns an id greater than it, which the stored row carries and
\* users_seq then equals. So the id is greater than every id returned before,
\* deleted or not, and no order or cart row of a user created earlier
\* carries it.
C20_IdsNeverReused ==
  [][ /\ db'.users_seq >= db.users_seq
      /\ \A u \in db'.users : u.id <= db'.users_seq
      /\ Settles("createUser") /\ last'.res.status = "OK"
           => /\ last'.res.id > db.users_seq
              /\ last'.res.id = db'.users_seq
              /\ \E u \in db'.users \ db.users :
                    u.id = last'.res.id /\ u.email = last'.args.email
              /\ \A o \in db'.orders : o.uid <= db.users_seq => o.uid # last'.res.id
              /\ \A c \in db'.cart : c.uid <= db.users_seq => c.uid # last'.res.id ]_vars

\* A user has been created after the only earlier user was deleted: its id
\* is greater than the id of the deleted user, whose order and cart rows are
\* still stored.
C20_Witness ==
  /\ last.op = "createUser"
  /\ last.res.status = "OK"
  /\ db.users = {[id |-> last.res.id, name |-> last.args.name,
                  email |-> last.args.email, password |-> last.args.password]}
  /\ \E o \in db.orders : o.uid < last.res.id
  /\ \E c \in db.cart : c.uid < last.res.id
====
